---- MODULE Spec2Model ----
(***************************************************************************)
(* Model of libsensors-c++ (src/sensors.cpp, include/sensors-c++/sensors.h) *)
(* : the process-wide libsensors handle, the path lookups                   *)
(* chip_name / feature / subfeature, the cursor enumerations and the value  *)
(* and name accessors, over a boundary library (libsensors) whose detected  *)
(* chips, configuration files and return codes are chosen from small sets.  *)
(*                                                                         *)
(* Strings the code inspects character by character (hwmon paths, feature   *)
(* and subfeature names, formatted chip names) are sequences of one         *)
(* character strings.  Configuration paths are only compared and tested     *)
(* for emptiness, so they are plain strings.                                *)
(***************************************************************************)
EXTENDS Integers, Sequences, FiniteSets, TLC

\* -------------------------------------------------------------------------
\* Bounds
\* -------------------------------------------------------------------------
\* longest list of chips the boundary library reports
MaxChips == 2
\* most FILE handles the model lets the process hold open at once
MaxOpen == 2
\* the threads of the process that use the library at the same time
MaxThreads == 2

\* -------------------------------------------------------------------------
\* std::string / std::filesystem::path helpers
\* -------------------------------------------------------------------------
SLASH == "/"
USCORE == "_"
NUL == "\\0"

Min(a, b) == IF a < b THEN a ELSE b

\* Body applied to the value of v, v being evaluated once
With(v, Body(_)) == CHOOSE out \in {Body(x) : x \in {v}} : TRUE

Take(s, n) == SubSeq(s, 1, Min(n, Len(s)))

\* std::string::rfind(needle, 0) == 0 : needle is a prefix of s
starts_with(s, needle) ==
    /\ Len(needle) <= Len(s)
    /\ SubSeq(s, 1, Len(needle)) = needle

\* std::string::rfind(ch): 1-based position of the last ch, 0 for npos
rfind(s, ch) ==
    LET hits == {i \in 1..Len(s) : s[i] = ch}
    IN  IF hits = {} THEN 0 ELSE CHOOSE i \in hits : \A j \in hits : j <= i

\* s without its trailing directory separators
RECURSIVE strip_trailing_slashes(_)
strip_trailing_slashes(s) ==
    IF Len(s) > 0 /\ s[Len(s)] = SLASH
    THEN strip_trailing_slashes(SubSeq(s, 1, Len(s) - 1))
    ELSE s

\* fs::path::filename(): the text after the last separator
filename(p) == SubSeq(p, rfind(p, SLASH) + 1, Len(p))

\* fs::path::has_filename()
has_filename(p) == filename(p) # <<>>

\* fs::path::parent_path(): the path without its last component; a path
\* with no relative part (empty, or the root directory) is its own parent
parent_path(p) ==
    IF strip_trailing_slashes(p) = <<>> THEN p
    ELSE LET pos == rfind(p, SLASH)
             dir == strip_trailing_slashes(SubSeq(p, 1, pos))
         IN  IF pos = 0 THEN <<>>
             ELSE IF dir = <<>> THEN <<SLASH>>
             ELSE dir

\* -------------------------------------------------------------------------
\* The boundary library's data: what libsensors can report
\* -------------------------------------------------------------------------
\* flags of sensors_subfeature
SENSORS_MODE_R == "R"
SENSORS_MODE_W == "W"

\* The chips libsensors may detect.  Each is a sensors_chip_name (prefix,
\* bus, addr, path) with its sensors_feature records (name, number, type),
\* each with its sensors_subfeature records (name, number, type, flags).
\* Feature and subfeature numbers are unique within a chip.
\*   k: /h1    temp1-like feature with a two-underscore subfeature, and a
\*             feature whose own name holds an underscore (beep_enable-like)
\*   n: /h10   a path that /h1 is a string prefix of
\*   c: /h1/d  a path below /h1 (hwmonN/device), on a bus type the name
\*             formatter does not know, with a write-only subfeature
ChipIds == {"k", "n", "c"}

Chip(id) ==
    CASE id = "k" ->
        [path |-> <<"/", "h", "1">>, prefix |-> <<"k">>, bus |-> "isa", addr |-> 10,
         feats |-> <<
            [name |-> <<"t", "1">>, number |-> 0, type |-> "temp",
             subs |-> << [name |-> <<"t", "1", "_", "i">>, number |-> 0,
                          type |-> "input", flags |-> {SENSORS_MODE_R}],
                         [name |-> <<"t", "1", "_", "c", "_", "a">>, number |-> 1,
                          type |-> "crit_alarm", flags |-> {SENSORS_MODE_R}] >>],
            [name |-> <<"b", "_", "e">>, number |-> 1, type |-> "beep",
             subs |-> << [name |-> <<"b", "_", "e">>, number |-> 2,
                          type |-> "beep", flags |-> {SENSORS_MODE_R, SENSORS_MODE_W}] >>] >>]
      [] id = "n" ->
        [path |-> <<"/", "h", "1", "0">>, prefix |-> <<"n">>, bus |-> "pci", addr |-> 255,
         feats |-> <<
            [name |-> <<"f", "1">>, number |-> 0, type |-> "fan",
             subs |-> << [name |-> <<"f", "1", "_", "i">>, number |-> 0,
                          type |-> "input", flags |-> {SENSORS_MODE_R}] >>],
            [name |-> <<"t", "1">>, number |-> 1, type |-> "temp",
             subs |-> << [name |-> <<"t", "1", "_", "i">>, number |-> 1,
                          type |-> "input", flags |-> {SENSORS_MODE_R}] >>] >>]
      [] id = "c" ->
        [path |-> <<"/", "h", "1", "/", "d">>, prefix |-> <<"c">>, bus |-> "other", addr |-> 0,
         feats |-> <<
            [name |-> <<"t", "1">>, number |-> 0, type |-> "temp",
             subs |-> << [name |-> <<"t", "1", "_", "i">>, number |-> 0,
                          type |-> "input", flags |-> {SENSORS_MODE_W}] >>] >>]

\* the lists of distinct chips, in any order, that can be detected
ChipLists ==
    {l \in UNION {[1..n -> ChipIds] : n \in 0..MaxChips} :
        \A i, j \in 1..Len(l) : i # j => l[i] # l[j]}

\* Configuration files.  "" is the empty path (the default configuration),
\* "missing" cannot be opened, "bad" opens but sensors_init rejects its
\* content, "ok1" opens and loads.
ConfigPaths == {"", "ok1", "missing", "bad"}
NULLFILE == "NULL"

\* std::fopen(path, "r"): the FILE handle (named by its path), or NULL
fopen(path) == IF path \in {"", "missing"} THEN NULLFILE ELSE path

\* values a sensor can hold
Values == {0, 42}

\* -------------------------------------------------------------------------
\* State
\* -------------------------------------------------------------------------
VARIABLES
    chips,        \* the chips libsensors detects, in its enumeration order
    default_ok,   \* whether sensors_init(NULL) succeeds on this system
    static_init,  \* get_handle()'s function-local static has been constructed
    handle,       \* that static: the unique_ptr<libsensors_handle>
    lib,          \* libsensors' global state: the configurations loaded
    files,        \* open FILE handles, a count for each configuration file
    hw,           \* the value behind each (chip, subfeature number)
    ent,          \* the entity object the client holds
    ret,          \* the last operation and what it returned or threw
    calls,        \* the boundary calls the last operation made, in order
    crashed,      \* the process died dereferencing a null handle
    thr           \* each thread's operation in progress: its position and locals

vars == <<chips, default_ok, static_init, handle, lib, files, hw, ent, ret, calls, crashed,
          thr>>

\* the unique_ptr holding no object
NullHandle == [null |-> TRUE, m_path |-> "", m_config |-> NULLFILE]

\* the global state as one value, for the operators below
G == [static_init |-> static_init, handle |-> handle, lib |-> lib, files |-> files]

\* one logged boundary call: the function, its argument, the cursor or
\* subfeature number passed, and libsensors' state when it was called
Call(fn, arg, nr, l) ==
    [fn |-> fn, arg |-> arg, nr |-> nr, val |-> 0, rc |-> 0, lib |-> l]
\* the same for a call that passes or produces a value and returns a code
CallV(fn, arg, nr, v, rc, l) ==
    [fn |-> fn, arg |-> arg, nr |-> nr, val |-> v, rc |-> rc, lib |-> l]

\* -------------------------------------------------------------------------
\* Global handle lifecycle
\* -------------------------------------------------------------------------
\* sensors_init(FILE*): 0, or an error code; a failed init cleans up
sensors_init(file) ==
    IF file = NULLFILE THEN (IF default_ok THEN 0 ELSE -4)
    ELSE IF file = "bad" THEN -8
    ELSE 0

\* faulty variant of libsensors_handle: a file that cannot be opened is not noticed
libsensors_handle_unchecked(g, config_path) ==
    LET m_config == fopen(config_path)
        opened   == IF m_config = NULLFILE THEN g.files
                    ELSE [g.files EXCEPT ![m_config] = @ + 1]
        c_open   == Call("fopen", config_path, 0, g.lib)
        error    == sensors_init(m_config)
        c_init   == CallV("sensors_init", m_config, 0, 0, error, g.lib)
    IN  IF error # 0
        THEN [g |-> [g EXCEPT !.files = opened, !.lib = {}],
              threw |-> "init_error", calls |-> <<c_open, c_init>>,
              obj |-> NullHandle]
        ELSE [g |-> [g EXCEPT !.files = opened, !.lib = @ \cup {m_config}],
              threw |-> "none", calls |-> <<c_open, c_init>>,
              obj |-> [null |-> FALSE, m_path |-> config_path, m_config |-> m_config]]

\* libsensors_handle::libsensors_handle(config_path)
libsensors_handle(g, config_path) ==
    LET m_config == fopen(config_path)
        opened   == IF m_config = NULLFILE THEN g.files
                    ELSE [g.files EXCEPT ![m_config] = @ + 1]
        c_open   == Call("fopen", config_path, 0, g.lib)
        error    == sensors_init(m_config)
        c_init   == CallV("sensors_init", m_config, 0, 0, error, g.lib)
    IN  IF config_path # "" /\ m_config = NULLFILE
        THEN [g |-> g, threw |-> "init_error", calls |-> <<c_open>>,
              obj |-> NullHandle]
        ELSE IF error # 0
        THEN [g |-> [g EXCEPT !.files = opened, !.lib = {}],
              threw |-> "init_error", calls |-> <<c_open, c_init>>,
              obj |-> NullHandle]
        ELSE [g |-> [g EXCEPT !.files = opened, !.lib = @ \cup {m_config}],
              threw |-> "none", calls |-> <<c_open, c_init>>,
              obj |-> [null |-> FALSE, m_path |-> config_path, m_config |-> m_config]]

\* libsensors_handle::~libsensors_handle()
destroy_handle(g, obj) ==
    LET c_clean == Call("sensors_cleanup", "", 0, g.lib)
        c_close == Call("fclose", obj.m_config, 0, {})
    IN  IF obj.m_config # NULLFILE
        THEN [g |-> [g EXCEPT !.lib = {}, !.files[obj.m_config] = @ - 1],
              calls |-> <<c_clean, c_close>>]
        ELSE [g |-> [g EXCEPT !.lib = {}], calls |-> <<c_clean>>]

\* faulty variant of get_handle: a handle is constructed on every call
get_handle_every_call(g) ==
    With(libsensors_handle(g, ""), LAMBDA r :
        IF r.threw # "none"
        THEN [g |-> r.g, threw |-> r.threw, calls |-> r.calls]
        ELSE [g |-> [r.g EXCEPT !.static_init = TRUE, !.handle = r.obj],
              threw |-> "none", calls |-> r.calls])

\* get_handle(): the static is constructed on the first call that gets
\* through the constructor; a constructor that throws leaves it unconstructed
get_handle(g) ==
    IF g.static_init
    THEN [g |-> g, threw |-> "none", calls |-> <<>>]
    ELSE With(libsensors_handle(g, ""), LAMBDA r :
             IF r.threw # "none"
             THEN [g |-> r.g, threw |-> r.threw, calls |-> r.calls]
             ELSE [g |-> [r.g EXCEPT !.static_init = TRUE, !.handle = r.obj],
                   threw |-> "none", calls |-> r.calls])

\* handle.reset()
reset_handle(g) ==
    IF g.handle.null THEN [g |-> g, calls |-> <<>>]
    ELSE With(destroy_handle(g, g.handle), LAMBDA d :
             [g |-> [d.g EXCEPT !.handle = NullHandle], calls |-> d.calls])

\* faulty variant of load_config_from: the new handle is constructed before the old
\* one is destroyed
load_config_from_init_first(g, path, differs) ==
    IF differs
    THEN With(libsensors_handle(g, path), LAMBDA r :
         IF r.threw # "none"
         THEN [g |-> r.g, threw |-> r.threw, calls |-> r.calls]
         ELSE With(reset_handle(r.g), LAMBDA d :
                  [g |-> [d.g EXCEPT !.handle = r.obj], threw |-> "none",
                   calls |-> r.calls \o d.calls]))
    ELSE [g |-> g, threw |-> "none", calls |-> <<>>]

\* load_config(path) from the comparison on, the handle being non-null:
\* differs says how the comparison with the active path came out
load_config_from(g, path, differs) ==
    IF differs
    THEN With(reset_handle(g), LAMBDA d :
         With(libsensors_handle(d.g, path), LAMBDA r :
             [g |-> [r.g EXCEPT !.handle = r.obj], threw |-> r.threw,
              calls |-> d.calls \o r.calls]))
    ELSE [g |-> g, threw |-> "none", calls |-> <<>>]

\* load_config(path)
load_config(g, path) ==
    With(get_handle(g), LAMBDA h :
        IF h.threw # "none" THEN h
        ELSE With(load_config_from(h.g, path, path # h.g.handle.m_path), LAMBDA r :
                 [g |-> r.g, threw |-> r.threw, calls |-> h.calls \o r.calls]))

\* -------------------------------------------------------------------------
\* Entities.  A native record is named by its position: a chip by its index
\* in the detected list, a feature and a subfeature by their indices within
\* the parent.  A feature object carries its chip, a subfeature its feature.
\* -------------------------------------------------------------------------
NoEnt == [kind |-> "none", chip |-> 0, feat |-> 0, sub |-> 0]
ChipEnt(ci) == [kind |-> "chip", chip |-> ci, feat |-> 0, sub |-> 0]
FeatEnt(chip, fi) == [kind |-> "feature", chip |-> chip.chip, feat |-> fi, sub |-> 0]
SubEnt(feat, si) == [kind |-> "subfeature", chip |-> feat.chip, feat |-> feat.feat, sub |-> si]

\* the native records an entity wraps
ChipRec(e) == Chip(chips[e.chip])
FeatRec(e) == ChipRec(e).feats[e.feat]
SubRec(e) == FeatRec(e).subs[e.sub]

\* -------------------------------------------------------------------------
\* Boundary enumeration primitives: the record at the cursor and the
\* advanced cursor, or rec = 0 (the null sentinel) at the end.  An
\* uninitialised libsensors has no chips.
\* -------------------------------------------------------------------------
sensors_get_detected_chips(l, nr) ==
    IF l # {} /\ nr < Len(chips) THEN [rec |-> nr + 1, nr |-> nr + 1]
    ELSE [rec |-> 0, nr |-> nr]

sensors_get_features(chip, nr) ==
    IF nr < Len(ChipRec(chip).feats) THEN [rec |-> nr + 1, nr |-> nr + 1]
    ELSE [rec |-> 0, nr |-> nr]

sensors_get_all_subfeatures(feat, nr) ==
    IF nr < Len(FeatRec(feat).subs) THEN [rec |-> nr + 1, nr |-> nr + 1]
    ELSE [rec |-> 0, nr |-> nr]

\* -------------------------------------------------------------------------
\* Path resolution
\* -------------------------------------------------------------------------
\* faulty variant of chip_find_loop: the chip's path must equal the whole path
RECURSIVE chip_find_loop_exact(_, _, _)
chip_find_loop_exact(l, path, nr) ==
    LET c    == Call("sensors_get_detected_chips", "", nr, l)
        name == IF l # {} /\ nr < Len(chips) THEN [rec |-> nr + 1, nr |-> nr + 1]
                ELSE [rec |-> 0, nr |-> nr]
    IN  IF name.rec = 0
        THEN [threw |-> "parse_error",
              ent |-> [kind |-> "none", chip |-> 0, feat |-> 0, sub |-> 0],
              calls |-> <<c>>]
        ELSE IF path = Chip(chips[name.rec]).path
        THEN [threw |-> "none",
              ent |-> [kind |-> "chip", chip |-> name.rec, feat |-> 0, sub |-> 0],
              calls |-> <<c>>]
        ELSE With(chip_find_loop_exact(l, path, name.nr), LAMBDA rest :
                 [rest EXCEPT !.calls = <<c>> \o @])

\* the while loop of _sensors_impl<chip_name>::impl::find, from cursor nr
RECURSIVE chip_find_loop(_, _, _)
chip_find_loop(l, path, nr) ==
    LET c    == Call("sensors_get_detected_chips", "", nr, l)
        name == sensors_get_detected_chips(l, nr)
    IN  IF name.rec = 0
        THEN [threw |-> "parse_error", ent |-> NoEnt, calls |-> <<c>>]
        ELSE IF starts_with(path, Chip(chips[name.rec]).path)
        THEN [threw |-> "none", ent |-> ChipEnt(name.rec), calls |-> <<c>>]
        ELSE With(chip_find_loop(l, path, name.nr), LAMBDA rest :
                 [rest EXCEPT !.calls = <<c>> \o @])

\* chip_name::chip_name(path) = _sensors_impl<chip_name>::impl::find(path)
chip_find(g, path) ==
    With(get_handle(g), LAMBDA h :
        IF h.threw # "none"
        THEN [g |-> h.g, threw |-> h.threw, ent |-> NoEnt, calls |-> h.calls]
        ELSE With(chip_find_loop(h.g.lib, path, 0), LAMBDA f :
                 [g |-> h.g, threw |-> f.threw, ent |-> f.ent,
                  calls |-> h.calls \o f.calls]))

\* the while loop of _sensors_impl<feature>::impl::find(chip_path, name)
RECURSIVE feature_find_loop(_, _, _, _)
feature_find_loop(l, chip, feature_name, nr) ==
    LET c    == Call("sensors_get_features", "", nr, l)
        feat == sensors_get_features(chip, nr)
    IN  IF feat.rec = 0
        THEN [threw |-> "parse_error", ent |-> NoEnt, calls |-> <<c>>]
        ELSE IF ChipRec(chip).feats[feat.rec].name = feature_name
        THEN [threw |-> "none", ent |-> FeatEnt(chip, feat.rec), calls |-> <<c>>]
        ELSE With(feature_find_loop(l, chip, feature_name, feat.nr), LAMBDA rest :
                 [rest EXCEPT !.calls = <<c>> \o @])

\* feature::feature(chip_path, feature_name)
feature_find2(g, chip_path, feature_name) ==
    With(chip_find(g, chip_path), LAMBDA chip :
        IF chip.threw # "none" THEN chip
        ELSE With(feature_find_loop(chip.g.lib, chip.ent, feature_name, 0), LAMBDA f :
                 [g |-> chip.g, threw |-> f.threw, ent |-> f.ent,
                  calls |-> chip.calls \o f.calls]))

\* faulty variant of feat_name_of: the filename is cut at its first '_'
feat_name_of_first(fname) ==
    LET hits == {i \in 1..Len(fname) : fname[i] = USCORE}
        pos  == IF hits = {} THEN 0 ELSE CHOOSE i \in hits : \A j \in hits : i <= j
    IN  IF pos > 0 THEN SubSeq(fname, 1, pos - 1) ELSE fname

\* the feature-name candidate of a filename: the text before its last '_'
feat_name_of(fname) ==
    LET pos == rfind(fname, USCORE)
    IN  IF pos > 0 THEN SubSeq(fname, 1, pos - 1) ELSE fname

\* feature::feature(full_path)
feature_find(g, full_path) ==
    With(feat_name_of(filename(full_path)), LAMBDA feat_name :
    With(parent_path(full_path), LAMBDA chip_path :
        feature_find2(g, chip_path, feat_name)))

\* the while loop of _sensors_impl<subfeature>::impl::find
RECURSIVE subfeature_find_loop(_, _, _, _)
subfeature_find_loop(l, feat, sub_name, nr) ==
    LET c   == Call("sensors_get_all_subfeatures", "", nr, l)
        sub == sensors_get_all_subfeatures(feat, nr)
    IN  IF sub.rec = 0
        THEN [threw |-> "parse_error", ent |-> NoEnt, calls |-> <<c>>]
        ELSE IF FeatRec(feat).subs[sub.rec].name = sub_name
        THEN [threw |-> "none", ent |-> SubEnt(feat, sub.rec), calls |-> <<c>>]
        ELSE With(subfeature_find_loop(l, feat, sub_name, sub.nr), LAMBDA rest :
                 [rest EXCEPT !.calls = <<c>> \o @])

\* faulty variant of subfeature_find: a path without a filename is not turned away
subfeature_find_unchecked(g, full_path) ==
    With(feature_find(g, full_path), LAMBDA feat :
        IF feat.threw # "none" THEN feat
        ELSE With(subfeature_find_loop(feat.g.lib, feat.ent,
                                       filename(full_path), 0), LAMBDA s :
                 [g |-> feat.g, threw |-> s.threw, ent |-> s.ent,
                  calls |-> feat.calls \o s.calls]))

\* subfeature::subfeature(path)
subfeature_find(g, full_path) ==
    IF ~has_filename(full_path)
    THEN [g |-> g, threw |-> "parse_error", ent |-> NoEnt, calls |-> <<>>]
    ELSE With(feature_find(g, full_path), LAMBDA feat :
             IF feat.threw # "none" THEN feat
             ELSE With(subfeature_find_loop(feat.g.lib, feat.ent,
                                            filename(full_path), 0), LAMBDA s :
                      [g |-> feat.g, threw |-> s.threw, ent |-> s.ent,
                       calls |-> feat.calls \o s.calls]))

\* -------------------------------------------------------------------------
\* Enumeration
\* -------------------------------------------------------------------------
\* the while loop of get_detected_chips(), from cursor nr
RECURSIVE detected_chips_loop(_, _)
detected_chips_loop(l, nr) ==
    LET c  == Call("sensors_get_detected_chips", "", nr, l)
        cn == sensors_get_detected_chips(l, nr)
    IN  IF cn.rec = 0 THEN [list |-> <<>>, calls |-> <<c>>]
        ELSE With(detected_chips_loop(l, cn.nr), LAMBDA rest :
                 [list |-> <<ChipEnt(cn.rec)>> \o rest.list,
                  calls |-> <<c>> \o rest.calls])

\* get_detected_chips()
get_detected_chips(g) ==
    With(get_handle(g), LAMBDA h :
        IF h.threw # "none"
        THEN [g |-> h.g, threw |-> h.threw, list |-> <<>>, calls |-> h.calls]
        ELSE With(detected_chips_loop(h.g.lib, 0), LAMBDA r :
                 [g |-> h.g, threw |-> "none", list |-> r.list,
                  calls |-> h.calls \o r.calls]))

\* faulty variant of features_loop: each feature is put in front of the vector
RECURSIVE features_loop_push_front(_, _, _)
features_loop_push_front(l, chip, nr) ==
    LET c    == Call("sensors_get_features", "", nr, l)
        feat == sensors_get_features(chip, nr)
    IN  IF feat.rec = 0 THEN [list |-> <<>>, calls |-> <<c>>]
        ELSE With(features_loop_push_front(l, chip, feat.nr), LAMBDA rest :
                 [list |-> rest.list \o <<FeatEnt(chip, feat.rec)>>,
                  calls |-> <<c>> \o rest.calls])

\* chip_name::features(), from cursor nr
RECURSIVE features_loop(_, _, _)
features_loop(l, chip, nr) ==
    LET c    == Call("sensors_get_features", "", nr, l)
        feat == sensors_get_features(chip, nr)
    IN  IF feat.rec = 0 THEN [list |-> <<>>, calls |-> <<c>>]
        ELSE With(features_loop(l, chip, feat.nr), LAMBDA rest :
                 [list |-> <<FeatEnt(chip, feat.rec)>> \o rest.list,
                  calls |-> <<c>> \o rest.calls])

\* feature::subfeatures(), from cursor nr
RECURSIVE subfeatures_loop(_, _, _)
subfeatures_loop(l, feat, nr) ==
    LET c   == Call("sensors_get_all_subfeatures", "", nr, l)
        sub == sensors_get_all_subfeatures(feat, nr)
    IN  IF sub.rec = 0 THEN [list |-> <<>>, calls |-> <<c>>]
        ELSE With(subfeatures_loop(l, feat, sub.nr), LAMBDA rest :
                 [list |-> <<SubEnt(feat, sub.rec)>> \o rest.list,
                  calls |-> <<c>> \o rest.calls])

\* -------------------------------------------------------------------------
\* chip_name::name()
\* -------------------------------------------------------------------------
HexDigits == <<"0", "1", "2", "3", "4", "5", "6", "7", "8", "9",
               "a", "b", "c", "d", "e", "f">>

\* printf's %04x
Hex4(n) == << HexDigits[((n \div 4096) % 16) + 1], HexDigits[((n \div 256) % 16) + 1],
              HexDigits[((n \div 16) % 16) + 1], HexDigits[(n % 16) + 1] >>

\* the text sensors_snprintf_chip_name formats for a chip: prefix-bus-addr
format_chip_name(rec) ==
    IF rec.bus = "isa" THEN rec.prefix \o <<"-", "i", "s", "a", "-">> \o Hex4(rec.addr)
    ELSE rec.prefix \o <<"-", "p", "c", "i", "-">> \o Hex4(rec.addr)

\* snprintf into a buffer whose first size characters may be written: at
\* most size - 1 characters of text, then the terminator; the rest of the
\* buffer is untouched.  Returns the length of the whole text.
snprintf(buf, size, text) ==
    LET n == Min(Len(text), size - 1)
    IN  IF size = 0 THEN [ret |-> Len(text), buf |-> buf]
        ELSE [ret |-> Len(text),
              buf |-> [i \in 1..Len(buf) |->
                          IF i <= n THEN text[i]
                          ELSE IF i = n + 1 THEN NUL
                          ELSE buf[i]]]

\* sensors_snprintf_chip_name(str, size, chip): a bus type it does not know
\* is an error
sensors_snprintf_chip_name(buf, size, rec) ==
    IF rec.bus \notin {"isa", "pci"} THEN [ret |-> -6, buf |-> buf]
    ELSE snprintf(buf, size, format_chip_name(rec))

\* std::string name(size, '\0')
string_of_nul(size) == [i \in 1..size |-> NUL]

\* chip_name::name()
chip_name_name(rec) ==
    LET size == sensors_snprintf_chip_name(<<>>, 0, rec).ret
        name == string_of_nul(size)
        w    == sensors_snprintf_chip_name(name, size, rec)
        c1   == CallV("sensors_snprintf_chip_name", "", 0, 0, size, lib)
        c2   == CallV("sensors_snprintf_chip_name", "", size, 0, w.ret, lib)
    IN  IF size < 0 THEN [threw |-> "io_error", str |-> <<>>, calls |-> <<c1>>]
        ELSE IF w.ret < 0 THEN [threw |-> "io_error", str |-> <<>>, calls |-> <<c1, c2>>]
        ELSE [threw |-> "none", str |-> w.buf, calls |-> <<c1, c2>>]

\* -------------------------------------------------------------------------
\* subfeature::read() / subfeature::write()
\* -------------------------------------------------------------------------
\* the subfeature of a chip with the given number
sub_by_number(rec, number) ==
    CHOOSE s \in UNION {{f.subs[k] : k \in 1..Len(f.subs)} :
                            f \in {rec.feats[j] : j \in 1..Len(rec.feats)}} :
        s.number = number

\* sensors_get_value(chip, subfeat_nr, &value); io_fails is whether the
\* device read fails
sensors_get_value(chip, number, io_fails) ==
    IF SENSORS_MODE_R \notin sub_by_number(ChipRec(chip), number).flags
    THEN [error |-> -3, val |-> 0]
    ELSE IF io_fails THEN [error |-> -10, val |-> 0]
    ELSE [error |-> 0, val |-> hw[<<chips[chip.chip], number>>]]

\* sensors_set_value(chip, subfeat_nr, value): the error code and the values
\* the hardware then holds
sensors_set_value(chip, number, value, io_fails) ==
    IF SENSORS_MODE_W \notin sub_by_number(ChipRec(chip), number).flags
    THEN [error |-> -9, hw |-> hw]
    ELSE IF io_fails THEN [error |-> -10, hw |-> hw]
    ELSE [error |-> 0, hw |-> [hw EXCEPT ![<<chips[chip.chip], number>>] = value]]

\* feature().chip() of a subfeature object
chip_of(e) == ChipEnt(e.chip)
\* feature() of a subfeature object
feature_of(e) == [kind |-> "feature", chip |-> e.chip, feat |-> e.feat, sub |-> 0]

\* faulty variant of subfeature::read(): the value is asked for by the feature's
\* number
subfeature_read_feature_number(e, io_fails) ==
    LET number == FeatRec(e).number
        chip   == chip_of(e)
        r      == sensors_get_value(chip, number, io_fails)
        c      == CallV("sensors_get_value", chips[chip.chip], number, r.val, r.error, lib)
    IN  IF r.error # 0
        THEN [threw |-> "io_error", val |-> 0, calls |-> <<c>>]
        ELSE [threw |-> "none", val |-> r.val, calls |-> <<c>>]

\* subfeature::read()
subfeature_read(e, io_fails) ==
    LET number == SubRec(e).number
        chip   == chip_of(e)
        r      == sensors_get_value(chip, number, io_fails)
        c      == CallV("sensors_get_value", chips[chip.chip], number, r.val, r.error, lib)
    IN  IF r.error # 0
        THEN [threw |-> "io_error", val |-> 0, calls |-> <<c>>]
        ELSE [threw |-> "none", val |-> r.val, calls |-> <<c>>]

\* subfeature::write(value)
subfeature_write(e, value, io_fails) ==
    LET number == SubRec(e).number
        chip   == chip_of(e)
        r      == sensors_set_value(chip, number, value, io_fails)
        c      == CallV("sensors_set_value", chips[chip.chip], number, value, r.error, lib)
    IN  [threw |-> IF r.error # 0 THEN "io_error" ELSE "none", hw |-> r.hw,
         calls |-> <<c>>]

\* -------------------------------------------------------------------------
\* The client's inputs
\* -------------------------------------------------------------------------
Join(dir, name) == dir \o <<SLASH>> \o name

FeatsOf(id) == LET c == Chip(id) IN {c.feats[j] : j \in 1..Len(c.feats)}
SubsOf(f) == {f.subs[k] : k \in 1..Len(f.subs)}

\* the paths of the chips that may exist
ChipPaths == {Chip(id).path : id \in ChipIds}

\* the paths a client passes to the constructors: the path of every chip,
\* feature and subfeature that may exist, and some that never do (no such
\* chip, no filename, no such feature, no such subfeature)
QueryPaths ==
    ChipPaths
    \cup UNION {{Join(Chip(id).path, f.name) : f \in FeatsOf(id)} : id \in ChipIds}
    \cup UNION {{Join(Chip(id).path, s.name) : s \in UNION {SubsOf(f) : f \in FeatsOf(id)}} :
                    id \in ChipIds}
    \cup { <<"/", "h", "3">>, <<"/", "h", "1", "/">>,
           <<"/", "h", "1", "/", "z", "_", "i">>, <<"/", "h", "1", "/", "t", "1", "_", "z">> }

\* the chip paths a client passes with a feature name
QueryChipPaths == ChipPaths \cup { <<"/", "h", "3">> }

\* the feature names a client passes
QueryNames == {f.name : f \in UNION {FeatsOf(i) : i \in ChipIds}} \cup { <<"z">> }

\* -------------------------------------------------------------------------
\* Initial state: nothing constructed, libsensors not initialised
\* -------------------------------------------------------------------------
R0 == [op |-> "none", path |-> <<>>, name |-> <<>>, cfg |-> "", threw |-> "none",
       self |-> NoEnt, list |-> <<>>, val |-> 0, str |-> <<>>]

Threads == 1..MaxThreads

\* a thread that is in no operation and holds no object
Idle == [pc |-> "idle", op |-> "none", path |-> <<>>, nr |-> 0, obj |-> NoEnt,
         io |-> FALSE, threw |-> "none", self |-> NoEnt, list |-> <<>>, val |-> 0]

HwKeys == {<<id, s.number>> : id \in ChipIds, s \in UNION {SubsOf(f) : f \in UNION {FeatsOf(i) : i \in ChipIds}}}

Init ==
    /\ chips \in ChipLists
    /\ default_ok \in BOOLEAN
    /\ static_init = FALSE
    /\ handle = NullHandle
    /\ lib = {}
    /\ files = [f \in {"ok1", "bad"} |-> 0]
    /\ hw = [k \in HwKeys |-> 0]
    /\ ent = NoEnt
    /\ ret = R0
    /\ calls = <<>>
    /\ crashed = FALSE
    /\ thr = [t \in Threads |-> Idle]

SetG(g) ==
    /\ static_init' = g.static_init
    /\ handle' = g.handle
    /\ lib' = g.lib
    /\ files' = g.files

OpenCount(fs) == fs["ok1"] + fs["bad"]

\* -------------------------------------------------------------------------
\* Operations
\* -------------------------------------------------------------------------
\* the outcome of a constructor: the new object replaces the one held; a
\* constructor that throws leaves the client with what it had
Constructed(op, path, name, res) ==
    \E r \in {res} :
    /\ SetG(r.g)
    /\ ent' = IF r.threw = "none" THEN r.ent ELSE ent
    /\ ret' = [R0 EXCEPT !.op = op, !.path = path, !.name = name, !.threw = r.threw,
                         !.self = r.ent]
    /\ calls' = r.calls
    /\ UNCHANGED <<thr, chips, default_ok, hw, crashed>>

\* sensors::chip_name c{path}
ChipNameCtor(path) ==
    /\ ~crashed
    /\ Constructed("chip_name", path, <<>>, chip_find(G, path))

\* sensors::feature f{full_path}
FeatureCtor(full_path) ==
    /\ ~crashed
    /\ Constructed("feature", full_path, <<>>, feature_find(G, full_path))

\* sensors::feature f{chip_path, feature_name}
FeatureCtor2(chip_path, feature_name) ==
    /\ ~crashed
    /\ Constructed("feature2", chip_path, feature_name,
                   feature_find2(G, chip_path, feature_name))

\* sensors::subfeature s{path}
SubfeatureCtor(path) ==
    /\ ~crashed
    /\ Constructed("subfeature", path, <<>>, subfeature_find(G, path))

\* sensors::get_detected_chips()
GetDetectedChips ==
    /\ ~crashed
    /\ \E r \in {get_detected_chips(G)} :
           /\ SetG(r.g)
           /\ ret' = [R0 EXCEPT !.op = "get_detected_chips", !.threw = r.threw,
                                !.list = r.list]
           /\ calls' = r.calls
    /\ UNCHANGED <<thr, chips, default_ok, hw, ent, crashed>>

\* c.features() on the chip held
Features ==
    /\ ~crashed
    /\ ent.kind = "chip"
    /\ \E r \in {features_loop(lib, ent, 0)} :
           /\ ret' = [R0 EXCEPT !.op = "features", !.self = ent, !.list = r.list]
           /\ calls' = r.calls
    /\ UNCHANGED <<thr, chips, default_ok, static_init, handle, lib, files, hw, ent, crashed>>

\* f.subfeatures() on the feature held
Subfeatures ==
    /\ ~crashed
    /\ ent.kind = "feature"
    /\ \E r \in {subfeatures_loop(lib, ent, 0)} :
           /\ ret' = [R0 EXCEPT !.op = "subfeatures", !.self = ent, !.list = r.list]
           /\ calls' = r.calls
    /\ UNCHANGED <<thr, chips, default_ok, static_init, handle, lib, files, hw, ent, crashed>>

\* faulty variant of copy_entity: the copy looks its chip up again by the chip's path
copy_entity_by_path(e) ==
    With(chip_find_loop(lib, ChipRec(e).path, 0), LAMBDA f :
        [ent |-> [e EXCEPT !.chip = f.ent.chip], calls |-> f.calls])

\* the copy constructor of chip_name, feature and subfeature: the new object
\* gets a copy of the shared_ptr m_impl, and so the impl of the original
copy_entity(e) == [ent |-> e, calls |-> <<>>]

\* the client keeps a copy of element i of the vector last returned
Select(i) ==
    /\ ~crashed
    /\ ret.op \in {"get_detected_chips", "features", "subfeatures"}
    /\ i \in 1..Len(ret.list)
    /\ \E r \in {copy_entity(ret.list[i])} :
           /\ ent' = r.ent
           /\ ret' = [R0 EXCEPT !.op = "copy", !.self = ret.list[i]]
           /\ calls' = r.calls
    /\ UNCHANGED <<thr, chips, default_ok, static_init, handle, lib, files, hw, crashed>>

\* s.feature() / f.chip(): the client keeps a copy of the parent
Parent ==
    /\ ~crashed
    /\ ent.kind \in {"feature", "subfeature"}
    /\ ent' = IF ent.kind = "subfeature" THEN feature_of(ent) ELSE chip_of(ent)
    /\ ret' = [R0 EXCEPT !.op = "parent", !.self = ent]
    /\ calls' = <<>>
    /\ UNCHANGED <<thr, chips, default_ok, static_init, handle, lib, files, hw, crashed>>

\* c.name() on the chip held
Name ==
    /\ ~crashed
    /\ ent.kind = "chip"
    /\ LET r == chip_name_name(ChipRec(ent))
       IN  /\ ret' = [R0 EXCEPT !.op = "name", !.self = ent, !.threw = r.threw,
                                !.str = r.str]
           /\ calls' = r.calls
    /\ UNCHANGED <<thr, chips, default_ok, static_init, handle, lib, files, hw, ent, crashed>>

\* s.read() on the subfeature held
Read(io_fails) ==
    /\ ~crashed
    /\ ent.kind = "subfeature"
    /\ LET r == subfeature_read(ent, io_fails)
       IN  /\ ret' = [R0 EXCEPT !.op = "read", !.self = ent, !.threw = r.threw, !.val = r.val]
           /\ calls' = r.calls
    /\ UNCHANGED <<thr, chips, default_ok, static_init, handle, lib, files, hw, ent, crashed>>

\* s.write(value) on the subfeature held
Write(value, io_fails) ==
    /\ ~crashed
    /\ ent.kind = "subfeature"
    /\ LET r == subfeature_write(ent, value, io_fails)
       IN  /\ ret' = [R0 EXCEPT !.op = "write", !.self = ent, !.threw = r.threw, !.val = value]
           /\ calls' = r.calls
           /\ hw' = r.hw
    /\ UNCHANGED <<thr, chips, default_ok, static_init, handle, lib, files, ent, crashed>>

\* the outcome of load_config: objects made before a teardown are dropped,
\* as the function's contract demands of the client
Loaded(path, res) ==
    \E r \in {res} :
    /\ OpenCount(r.g.files) <= MaxOpen
    /\ SetG(r.g)
    /\ ent' = IF \E i \in 1..Len(r.calls) : r.calls[i].fn = "sensors_cleanup"
              THEN NoEnt ELSE ent
    /\ ret' = [R0 EXCEPT !.op = "load_config", !.cfg = path, !.threw = r.threw]
    /\ calls' = r.calls
    /\ UNCHANGED <<thr, chips, default_ok, hw, crashed>>

\* sensors::load_config(path), the handle holding an object (or not yet
\* constructed)
LoadConfig(path) ==
    /\ ~crashed
    /\ ~(static_init /\ handle.null)
    /\ Loaded(path, load_config(G, path))

\* sensors::load_config(path) after a load_config that threw: the handle is
\* null and handle->config_path() dereferences it.  The comparison may come
\* out either way, or the process dies.
LoadConfigNull(path, differs) ==
    /\ ~crashed
    /\ static_init /\ handle.null
    /\ Loaded(path, load_config_from(G, path, differs))

LoadConfigCrash(path) ==
    /\ ~crashed
    /\ static_init /\ handle.null
    /\ crashed' = TRUE
    /\ ret' = [R0 EXCEPT !.op = "load_config", !.cfg = path, !.threw = "crash"]
    /\ calls' = <<>>
    /\ UNCHANGED <<thr, chips, default_ok, static_init, handle, lib, files, hw, ent>>

Next ==
    \/ \E p \in QueryPaths : ChipNameCtor(p)
    \/ \E p \in QueryPaths : FeatureCtor(p)
    \/ \E p \in QueryChipPaths, n \in QueryNames : FeatureCtor2(p, n)
    \/ \E p \in QueryPaths : SubfeatureCtor(p)
    \/ GetDetectedChips
    \/ Features
    \/ Subfeatures
    \/ \E i \in 1..3 : Select(i)
    \/ Parent
    \/ Name
    \/ \E io \in BOOLEAN : Read(io)
    \/ \E v \in Values, io \in BOOLEAN : Write(v, io)
    \/ \E c \in ConfigPaths : LoadConfig(c)
    \/ \E c \in ConfigPaths, d \in BOOLEAN : LoadConfigNull(c, d)
    \/ \E c \in ConfigPaths : LoadConfigCrash(c)

Spec == Init /\ [][Next]_vars

\* Lookups, enumeration and navigation in a process that never calls
\* load_config
NextLookup ==
    \/ \E p \in QueryPaths : ChipNameCtor(p)
    \/ \E p \in QueryPaths : FeatureCtor(p)
    \/ \E p \in QueryChipPaths, n \in QueryNames : FeatureCtor2(p, n)
    \/ \E p \in QueryPaths : SubfeatureCtor(p)
    \/ GetDetectedChips
    \/ Features
    \/ Subfeatures
    \/ \E i \in 1..3 : Select(i)
    \/ Parent

SpecLookup == Init /\ [][NextLookup]_vars

\* Configuration loading, with the enumeration and the chip lookup that
\* initialise lazily
NextLife ==
    \/ \E c \in ConfigPaths : LoadConfig(c)
    \/ \E c \in ConfigPaths, d \in BOOLEAN : LoadConfigNull(c, d)
    \/ \E c \in ConfigPaths : LoadConfigCrash(c)
    \/ GetDetectedChips
    \/ \E p \in QueryPaths : ChipNameCtor(p)

SpecLife == Init /\ [][NextLife]_vars

\* Reaching the entities by enumeration and using their accessors
NextIO ==
    \/ GetDetectedChips
    \/ Features
    \/ Subfeatures
    \/ \E i \in 1..3 : Select(i)
    \/ Parent
    \/ Name
    \/ \E io \in BOOLEAN : Read(io)
    \/ \E v \in Values, io \in BOOLEAN : Write(v, io)

SpecIO == Init /\ [][NextIO]_vars

\* -------------------------------------------------------------------------
\* Threads.  The same operations run by several threads, one boundary call
\* at a time: a thread's record holds its position (pc), the operation and
\* its path, its cursor (the local int nr of the loop it is in), the object
\* the loop enumerates (obj) and what the operation returned or threw.
\* -------------------------------------------------------------------------
\* the paths the threads pass to the constructors
ThreadPaths ==
    { <<"/", "h", "1", "/">>,
      <<"/", "h", "1", "/", "t", "1", "_", "z">>,
      <<"/", "h", "1", "/", "t", "1", "_", "c", "_", "a">>,
      <<"/", "h", "1", "0", "/", "t", "1", "_", "i">> }

ThreadOps == {"chip_name", "feature", "subfeature", "get_detected_chips"}

\* faulty variant of static_guard_free: the static is initialised without a guard
static_guard_absent(t) == TRUE

\* the initialisation of get_handle()'s function-local static is guarded: a
\* thread enters it only while no other thread is in it, and waits otherwise
static_guard_free(t) == \A u \in Threads \ {t} : thr[u].pc # "init"

\* the step of thread t: its record becomes r, and the boundary calls it
\* made are cs
Stepped(t, r, cs) ==
    /\ thr' = [thr EXCEPT ![t] = r]
    /\ calls' = cs

\* thread t enters a constructor or get_detected_chips(); subfeature(path)
\* throws at once when the path has no filename
TCall(t, op, path) ==
    /\ thr[t].pc = "idle"
    /\ Stepped(t, IF op = "subfeature" /\ ~has_filename(path)
                  THEN [Idle EXCEPT !.pc = "done", !.op = op, !.path = path,
                                    !.threw = "parse_error"]
                  ELSE [Idle EXCEPT !.pc = "get_handle", !.op = op, !.path = path],
               <<>>)
    /\ UNCHANGED <<chips, default_ok, static_init, handle, lib, files, hw, ent, ret, crashed>>

\* get_handle() in thread t: the static is constructed already, or t is the
\* thread that goes on to construct it
TGetHandle(t) ==
    /\ thr[t].pc = "get_handle"
    /\ IF static_init
       THEN Stepped(t, [thr[t] EXCEPT !.pc = "chips"], <<>>)
       ELSE /\ static_guard_free(t)
            /\ Stepped(t, [thr[t] EXCEPT !.pc = "init"], <<>>)
    /\ UNCHANGED <<chips, default_ok, static_init, handle, lib, files, hw, ent, ret, crashed>>

\* thread t constructs the static: make_unique<libsensors_handle>(); a
\* constructor that throws leaves the static unconstructed
TInit(t) ==
    /\ thr[t].pc = "init"
    /\ \E r \in {libsensors_handle(G, "")} :
           IF r.threw # "none"
           THEN /\ SetG(r.g)
                /\ Stepped(t, [thr[t] EXCEPT !.pc = "done", !.threw = r.threw], r.calls)
           ELSE /\ SetG([r.g EXCEPT !.static_init = TRUE, !.handle = r.obj])
                /\ Stepped(t, [thr[t] EXCEPT !.pc = "chips"], r.calls)
    /\ UNCHANGED <<chips, default_ok, hw, ent, ret, crashed>>

\* one turn of the loop over sensors_get_detected_chips in thread t, in
\* get_detected_chips() or in the chip lookup of a constructor
TChips(t) ==
    /\ thr[t].pc = "chips"
    /\ LET me     == thr[t]
           c      == Call("sensors_get_detected_chips", "", me.nr, lib)
           name   == sensors_get_detected_chips(lib, me.nr)
           target == IF me.op = "chip_name" THEN me.path ELSE parent_path(me.path)
       IN  IF me.op = "get_detected_chips"
           THEN IF name.rec = 0
                THEN Stepped(t, [me EXCEPT !.pc = "done"], <<c>>)
                ELSE Stepped(t, [me EXCEPT !.nr = name.nr,
                                           !.list = Append(@, ChipEnt(name.rec))], <<c>>)
           ELSE IF name.rec = 0
                THEN Stepped(t, [me EXCEPT !.pc = "done", !.threw = "parse_error"], <<c>>)
           ELSE IF ~starts_with(target, Chip(chips[name.rec]).path)
                THEN Stepped(t, [me EXCEPT !.nr = name.nr], <<c>>)
           ELSE IF me.op = "chip_name"
                THEN Stepped(t, [me EXCEPT !.pc = "done", !.self = ChipEnt(name.rec)], <<c>>)
           ELSE Stepped(t, [me EXCEPT !.pc = "feats", !.nr = 0,
                                      !.obj = ChipEnt(name.rec)], <<c>>)
    /\ UNCHANGED <<chips, default_ok, static_init, handle, lib, files, hw, ent, ret, crashed>>

\* one turn of the loop over sensors_get_features in thread t
TFeats(t) ==
    /\ thr[t].pc = "feats"
    /\ LET me   == thr[t]
           c    == Call("sensors_get_features", "", me.nr, lib)
           feat == sensors_get_features(me.obj, me.nr)
       IN  IF feat.rec = 0
           THEN Stepped(t, [me EXCEPT !.pc = "done", !.threw = "parse_error"], <<c>>)
           ELSE IF ChipRec(me.obj).feats[feat.rec].name # feat_name_of(filename(me.path))
           THEN Stepped(t, [me EXCEPT !.nr = feat.nr], <<c>>)
           ELSE IF me.op = "feature"
           THEN Stepped(t, [me EXCEPT !.pc = "done", !.self = FeatEnt(me.obj, feat.rec)],
                        <<c>>)
           ELSE Stepped(t, [me EXCEPT !.pc = "subs", !.nr = 0,
                                      !.obj = FeatEnt(me.obj, feat.rec)], <<c>>)
    /\ UNCHANGED <<chips, default_ok, static_init, handle, lib, files, hw, ent, ret, crashed>>

\* one turn of the loop over sensors_get_all_subfeatures in thread t
TSubs(t) ==
    /\ thr[t].pc = "subs"
    /\ LET me  == thr[t]
           c   == Call("sensors_get_all_subfeatures", "", me.nr, lib)
           sub == sensors_get_all_subfeatures(me.obj, me.nr)
       IN  IF sub.rec = 0
           THEN Stepped(t, [me EXCEPT !.pc = "done", !.threw = "parse_error"], <<c>>)
           ELSE IF FeatRec(me.obj).subs[sub.rec].name # filename(me.path)
           THEN Stepped(t, [me EXCEPT !.nr = sub.nr], <<c>>)
           ELSE Stepped(t, [me EXCEPT !.pc = "done", !.self = SubEnt(me.obj, sub.rec)],
                        <<c>>)
    /\ UNCHANGED <<chips, default_ok, static_init, handle, lib, files, hw, ent, ret, crashed>>

\* thread t reads the subfeature it has constructed
TRead(t, io_fails) ==
    /\ thr[t].pc = "done"
    /\ thr[t].op = "subfeature"
    /\ thr[t].threw = "none"
    /\ LET r == subfeature_read(thr[t].self, io_fails)
       IN  Stepped(t, [Idle EXCEPT !.pc = "done", !.op = "read", !.obj = thr[t].self,
                                   !.io = io_fails, !.threw = r.threw, !.val = r.val],
                   r.calls)
    /\ UNCHANGED <<chips, default_ok, static_init, handle, lib, files, hw, ent, ret, crashed>>

\* thread t takes the parent of the feature or subfeature it has constructed
TParent(t) ==
    /\ thr[t].pc = "done"
    /\ thr[t].op \in {"feature", "subfeature"}
    /\ thr[t].threw = "none"
    /\ Stepped(t, [Idle EXCEPT !.pc = "done", !.op = "parent", !.obj = thr[t].self,
                               !.self = IF thr[t].self.kind = "subfeature"
                                        THEN feature_of(thr[t].self)
                                        ELSE chip_of(thr[t].self)],
               <<>>)
    /\ UNCHANGED <<chips, default_ok, static_init, handle, lib, files, hw, ent, ret, crashed>>

\* thread t is done with what its operation returned
TReturn(t) ==
    /\ thr[t].pc = "done"
    /\ Stepped(t, Idle, <<>>)
    /\ UNCHANGED <<chips, default_ok, static_init, handle, lib, files, hw, ent, ret, crashed>>

\* Threads that construct by path, enumerate, navigate and read, in a
\* process that never calls load_config
NextThreads ==
    \/ \E t \in Threads, op \in ThreadOps, p \in ThreadPaths : TCall(t, op, p)
    \/ \E t \in Threads : TGetHandle(t)
    \/ \E t \in Threads : TInit(t)
    \/ \E t \in Threads : TChips(t)
    \/ \E t \in Threads : TFeats(t)
    \/ \E t \in Threads : TSubs(t)
    \/ \E t \in Threads, io \in BOOLEAN : TRead(t, io)
    \/ \E t \in Threads : TParent(t)
    \/ \E t \in Threads : TReturn(t)

SpecThreads == Init /\ [][NextThreads]_vars

\* -------------------------------------------------------------------------
\* Properties
\* -------------------------------------------------------------------------
\* the positions of the chips get_detected_chips() returns in this state
Detected == IF lib # {} THEN 1..Len(chips) ELSE {}

\* q is a string prefix of p, said without the code's rfind
IsStringPrefix(q, p) == \E n \in 0..Len(p) : q = SubSeq(p, 1, n)

\* the directory q is p itself or an ancestor directory of p
IsDirPrefix(q, p) == q = p \/ IsStringPrefix(q \o <<SLASH>>, p)

\* the positions of the features of chip ci, and of the subfeatures of its
\* feature fi
FeatIdx(ci) == 1..Len(Chip(chips[ci]).feats)
SubIdx(ci, fi) == 1..Len(Chip(chips[ci]).feats[fi].subs)

\* C1: round-trip resolution.  For every detected chip c, feature f of c and
\* subfeature s of f, subfeature(c.path() + "/" + s.name()) succeeds and
\* yields a subfeature with the name, number and type of s.
C1_RoundTrip ==
    \A ci \in Detected : \A fi \in FeatIdx(ci) : \A si \in SubIdx(ci, fi) :
        LET c == Chip(chips[ci])
            s == c.feats[fi].subs[si]
        IN  (ret.op = "subfeature" /\ ret.path = Join(c.path, s.name))
            => /\ ret.threw = "none"
               /\ ret.self.kind = "subfeature"
               /\ SubRec(ret.self).name = s.name
               /\ SubRec(ret.self).number = s.number
               /\ SubRec(ret.self).type = s.type

\* the first chip, in enumeration order, whose path is a string prefix of p
\* (0 when there is none)
FirstPrefixChip(p) ==
    LET hits == {ci \in Detected : IsStringPrefix(Chip(chips[ci]).path, p)}
    IN  IF hits = {} THEN 0 ELSE CHOOSE ci \in hits : \A cj \in hits : ci <= cj

\* what chip_name(path) returned is the first chip whose path is a string
\* prefix of path, and parse_error when there is none
ChipLookupIsFirstPrefix ==
    (ret.op = "chip_name" /\ ret.threw # "init_error")
    => IF FirstPrefixChip(ret.path) = 0
       THEN ret.threw = "parse_error" /\ ret.self = NoEnt
       ELSE ret.threw = "none" /\ ret.self = ChipEnt(FirstPrefixChip(ret.path))

\* C2 as stated: chip lookup returns the first chip whose path is a string
\* prefix of the path, and for a chip path P a lookup on any deeper path
\* P + "/" + rest returns the chip a lookup on P returns.
C2_DeeperSameAsShorter ==
    /\ ChipLookupIsFirstPrefix
    /\ \A ci \in Detected :
          LET P == Chip(chips[ci]).path
          IN  (/\ ret.op = "chip_name"
               /\ ret.threw # "init_error"
               /\ IsStringPrefix(P \o <<SLASH>>, ret.path))
              => ret.self = chip_find_loop(lib, P, 0).ent

\* C2 amended: chip lookup returns the first chip whose path is a string
\* prefix of the path; for a chip path P a lookup on a deeper path
\* P + "/" + rest returns the chip a lookup on P returns, unless a chip
\* enumerated before that one has a path that is a prefix of the deeper path
\* (a chip path below P), and then it returns the first such chip.
C2_FirstPrefix ==
    /\ ChipLookupIsFirstPrefix
    /\ \A ci \in Detected :
          LET P     == Chip(chips[ci]).path
              short == chip_find_loop(lib, P, 0).ent
              below == {cj \in Detected : /\ cj < short.chip
                                          /\ IsStringPrefix(Chip(chips[cj]).path, ret.path)}
          IN  (/\ ret.op = "chip_name"
               /\ ret.threw # "init_error"
               /\ IsStringPrefix(P \o <<SLASH>>, ret.path))
              => /\ short.kind = "chip"
                 /\ ret.threw = "none"
                 /\ IF below = {} THEN ret.self = short
                    ELSE /\ ret.self.chip \in below
                         /\ \A cj \in below : ret.self.chip <= cj
                         /\ Len(Chip(chips[ret.self.chip]).path) > Len(P)

\* C2 witness: a lookup on a path below a chip path found that chip although
\* a chip enumerated later matches the path as well
C2_Witness ==
    /\ ret.op = "chip_name"
    /\ ret.threw = "none"
    /\ IsStringPrefix(ChipRec(ret.self).path \o <<SLASH>>, ret.path)
    /\ \E cj \in Detected : /\ cj > ret.self.chip
                            /\ IsStringPrefix(Chip(chips[cj]).path, ret.path)

\* C3: no-match lookups fail with parse_error and return no entity:
\* chip_name(path) when no detected chip's path is path or a directory
\* ancestor of it; feature(chip_path, name) when no feature of the resolved
\* chip is called name; subfeature(path) when no subfeature of the resolved
\* feature is called as the path's filename.
C3_NoMatch ==
    /\ (/\ ret.op = "chip_name"
        /\ ret.threw # "init_error"
        /\ \A ci \in Detected : ~IsDirPrefix(Chip(chips[ci]).path, ret.path))
       => (ret.threw = "parse_error" /\ ret.self = NoEnt)
    /\ (/\ ret.op = "feature2"
        /\ ret.threw # "init_error"
        /\ LET chip == chip_find_loop(lib, ret.path, 0).ent
           IN  chip.kind = "chip"
               => \A fi \in FeatIdx(chip.chip) :
                     Chip(chips[chip.chip]).feats[fi].name # ret.name)
       => (ret.threw = "parse_error" /\ ret.self = NoEnt)
    /\ (/\ ret.op = "subfeature"
        /\ ret.threw # "init_error"
        /\ LET feat == feature_find(G, ret.path).ent
           IN  feat.kind = "feature"
               => \A si \in SubIdx(feat.chip, feat.feat) :
                     FeatRec(feat).subs[si].name # filename(ret.path))
       => (ret.threw = "parse_error" /\ ret.self = NoEnt)

Fns(cs) == [i \in 1..Len(cs) |-> <<cs[i].fn, cs[i].arg>>]

EnumFns == {"sensors_get_detected_chips", "sensors_get_features",
            "sensors_get_all_subfeatures"}

IsEnumCall(c) == c.fn \in EnumFns

\* C4: reconfiguration.  load_config(path) with a path other than the active
\* one tears the global state down (sensors_cleanup, fclose of the old file)
\* and only then initialises with the new path, so that at most one
\* configuration is ever active; with the active path it makes no call and
\* leaves the global state as it is.
C4_Reconfiguration ==
    [][ (ret'.op = "load_config" /\ ret'.threw # "crash" /\ static_init /\ ~handle.null)
        => IF ret'.cfg # handle.m_path
           THEN LET old      == handle.m_config
                    new      == fopen(ret'.cfg)
                    teardown == IF old # NULLFILE
                                THEN << <<"sensors_cleanup", "">>, <<"fclose", old>> >>
                                ELSE << <<"sensors_cleanup", "">> >>
                    setup    == IF ret'.cfg # "" /\ new = NULLFILE
                                THEN << <<"fopen", ret'.cfg>> >>
                                ELSE << <<"fopen", ret'.cfg>>, <<"sensors_init", new>> >>
                IN  /\ Fns(calls') = teardown \o setup
                    /\ \A i \in 1..Len(calls') :
                          calls'[i].fn = "sensors_init" => calls'[i].lib = {}
                    /\ old # NULLFILE => files'[old] = files[old] - 1
                    /\ Cardinality(lib') <= 1
                    /\ ret'.threw = "none"
                       => /\ lib' = {new}
                          /\ ~handle'.null
                          /\ handle'.m_path = ret'.cfg
                          /\ handle'.m_config = new
                    /\ ret'.threw # "none" => lib' = {}
           ELSE /\ calls' = <<>>
                /\ ret'.threw = "none"
                /\ UNCHANGED <<static_init, handle, lib, files>>
      ]_vars

\* C4 witness: load_config("") while a configuration file was active tore
\* it down, closed the file and initialised with the default configuration
C4_Witness ==
    /\ ret.op = "load_config"
    /\ ret.threw = "none"
    /\ ret.cfg = ""
    /\ Fns(calls) = << <<"sensors_cleanup", "">>, <<"fclose", "ok1">>,
                       <<"fopen", "">>, <<"sensors_init", NULLFILE>> >>
    /\ ~handle.null /\ handle.m_path = ""
    /\ lib = {NULLFILE}
    /\ files["ok1"] = 0

\* the operations that need libsensors initialised
NeedsInit(r) ==
    \/ r.op \in {"chip_name", "feature", "feature2", "get_detected_chips"}
    \/ r.op = "subfeature" /\ has_filename(r.path)

\* C5: lazy initialisation.  Without load_config, libsensors is initialised
\* with the default configuration (a null stream) by the first operation
\* that needs it, is initialised once and never again, and is initialised
\* whenever an enumeration primitive is called.
C5_LazyInit ==
    [][ /\ \A i \in 1..Len(calls') :
              /\ calls'[i].fn = "sensors_init"
                 => /\ calls'[i].arg = NULLFILE
                    /\ calls'[i].lib = {}
                    /\ ~static_init
                    /\ \A j \in 1..Len(calls') : calls'[j].fn = "sensors_init" => j = i
              /\ calls'[i].fn \in EnumFns => calls'[i].lib = {NULLFILE}
              /\ calls'[i].fn # "sensors_cleanup"
        /\ static_init => (static_init' /\ lib = {NULLFILE} /\ lib' = lib)
        /\ (~static_init /\ NeedsInit(ret'))
           => /\ Len(calls') >= 2
              /\ Fns(calls')[1] = <<"fopen", "">>
              /\ Fns(calls')[2] = <<"sensors_init", NULLFILE>>
              /\ IF calls'[2].rc = 0
                 THEN static_init' /\ lib' = {NULLFILE} /\ ret'.threw # "init_error"
                 ELSE ~static_init' /\ lib' = {} /\ ret'.threw = "init_error"
                      /\ Len(calls') = 2
      ]_vars

\* C5 witness: an operation enumerated chips without initialising, because
\* an earlier one had
C5_Witness ==
    /\ ret.op \in {"chip_name", "feature", "feature2", "subfeature", "get_detected_chips"}
    /\ Len(calls) > 0
    /\ \A i \in 1..Len(calls) : calls[i].fn \in EnumFns
    /\ lib = {NULLFILE}

\* C6: initialisation failure is an init_error.  A non-empty configuration
\* path that cannot be opened raises init_error and sensors_init is not
\* called; a non-zero return of sensors_init raises init_error; with the
\* empty path the failed open is ignored and sensors_init gets a null stream.
C6_InitFailure ==
    /\ \A i \in 1..Len(calls) :
          /\ (calls[i].fn = "fopen" /\ calls[i].arg # "" /\ fopen(calls[i].arg) = NULLFILE)
             => (ret.threw = "init_error" /\ i = Len(calls))
          /\ (calls[i].fn = "sensors_init" /\ calls[i].rc # 0)
             => (ret.threw = "init_error" /\ i = Len(calls))
          /\ (calls[i].fn = "fopen" /\ calls[i].arg = "")
             => /\ i < Len(calls)
                /\ calls[i + 1].fn = "sensors_init"
                /\ calls[i + 1].arg = NULLFILE
          /\ calls[i].fn = "sensors_init"
             => /\ i > 1
                /\ calls[i - 1].fn = "fopen"
                /\ calls[i].arg = fopen(calls[i - 1].arg)
    /\ ret.threw = "init_error"
       => /\ Len(calls) > 0
          /\ LET last == calls[Len(calls)]
             IN  \/ last.fn = "sensors_init" /\ last.rc # 0
                 \/ last.fn = "fopen" /\ last.arg # "" /\ fopen(last.arg) = NULLFILE

\* C6 witness: load_config of a file that cannot be opened threw init_error
\* after the attempt to open it
C6_Witness ==
    /\ ret.op = "load_config"
    /\ ret.cfg = "missing"
    /\ ret.threw = "init_error"
    /\ Len(calls) > 0
    /\ calls[Len(calls)].fn = "fopen"
    /\ calls[Len(calls)].arg = "missing"

\* what an enumeration returned, against the primitive it iterates: the
\* cursor starts at 0 and is carried from call to call, every record
\* yielded is in the result at its place, and the last call got the sentinel
EnumeratedAll(E, n, Yield(_), Entity(_)) ==
    /\ Len(E) = n + 1
    /\ E[1].nr = 0
    /\ \A k \in 1..n :
          /\ Yield(E[k].nr).rec # 0
          /\ ret.list[k] = Entity(Yield(E[k].nr).rec)
          /\ E[k + 1].nr = Yield(E[k].nr).nr
    /\ Yield(E[n + 1].nr).rec = 0

\* C8: enumeration completeness and order.  get_detected_chips(),
\* chip_name::features() and feature::subfeatures() return exactly the
\* records the cursor primitive yields from cursor 0 to its sentinel, in that
\* order; an empty sequence is an empty result and no error; each feature
\* and subfeature carries the parent it was enumerated from.
C8_Enumeration ==
    LET E == SelectSeq(calls, IsEnumCall)
        n == Len(ret.list)
    IN  /\ ret.op = "get_detected_chips"
           => \/ /\ ret.threw = "init_error"
                 /\ calls[Len(calls)].fn = "sensors_init"
                 /\ calls[Len(calls)].rc # 0
              \/ /\ ret.threw = "none"
                 /\ \A k \in 1..Len(E) : E[k].fn = "sensors_get_detected_chips"
                 /\ EnumeratedAll(E, n, LAMBDA nr : sensors_get_detected_chips(lib, nr),
                                  ChipEnt)
        /\ ret.op = "features"
           => /\ ret.threw = "none"
              /\ E = calls
              /\ \A k \in 1..Len(E) : E[k].fn = "sensors_get_features"
              /\ EnumeratedAll(E, n, LAMBDA nr : sensors_get_features(ret.self, nr),
                               LAMBDA fi : FeatEnt(ret.self, fi))
              /\ \A k \in 1..n : chip_of(ret.list[k]) = ret.self
        /\ ret.op = "subfeatures"
           => /\ ret.threw = "none"
              /\ E = calls
              /\ \A k \in 1..Len(E) : E[k].fn = "sensors_get_all_subfeatures"
              /\ EnumeratedAll(E, n, LAMBDA nr : sensors_get_all_subfeatures(ret.self, nr),
                               LAMBDA si : SubEnt(ret.self, si))
              /\ \A k \in 1..n : feature_of(ret.list[k]) = ret.self

\* C8 witness: features() returned two features
C8_Witness ==
    /\ ret.op = "features"
    /\ Len(ret.list) = 2
    /\ FeatRec(ret.list[1]).name # FeatRec(ret.list[2]).name

\* C9: value I/O delegation.  read() calls sensors_get_value with the parent
\* chip and the subfeature's number and returns the value produced; write(v)
\* calls sensors_set_value with the same chip and number and v; a non-zero
\* return code raises io_error and nothing is returned; neither changes the
\* subfeature object.
C9_ValueIO ==
    [][ /\ ret'.op = "read"
           => /\ Len(calls') = 1
              /\ calls'[1].fn = "sensors_get_value"
              /\ calls'[1].arg = chips[ent.chip]
              /\ calls'[1].nr = SubRec(ent).number
              /\ IF calls'[1].rc = 0
                 THEN /\ ret'.threw = "none"
                      /\ ret'.val = calls'[1].val
                      /\ ret'.val = hw[<<chips[ent.chip], SubRec(ent).number>>]
                 ELSE ret'.threw = "io_error" /\ ret'.val = 0
              /\ ret'.self = ent
              /\ ent' = ent
              /\ hw' = hw
        /\ ret'.op = "write"
           => /\ Len(calls') = 1
              /\ calls'[1].fn = "sensors_set_value"
              /\ calls'[1].arg = chips[ent.chip]
              /\ calls'[1].nr = SubRec(ent).number
              /\ calls'[1].val = ret'.val
              /\ IF calls'[1].rc = 0
                 THEN /\ ret'.threw = "none"
                      /\ hw' = [hw EXCEPT ![<<chips[ent.chip], SubRec(ent).number>>] = ret'.val]
                 ELSE ret'.threw = "io_error" /\ hw' = hw
              /\ ret'.self = ent
              /\ ent' = ent
      ]_vars

\* C9 witness: read() returned the value an earlier write() had set
C9_Witness ==
    /\ ret.op = "read"
    /\ ret.threw = "none"
    /\ ret.val = 42
    /\ SubRec(ent).number # FeatRec(ent).number

\* C10: chip_name::name() returns the name as sensors_snprintf_chip_name
\* formats it: as long as the size query reported, with every character of
\* the formatted name and no terminator; a negative return of either call
\* raises io_error.
C10_NameComplete ==
    ret.op = "name"
    => LET rec  == ChipRec(ret.self)
           size == sensors_snprintf_chip_name(<<>>, 0, rec).ret
       IN  IF size < 0 THEN ret.threw = "io_error"
           ELSE /\ ret.threw = "none"
                /\ Len(ret.str) = size
                /\ ret.str = format_chip_name(rec)
                /\ \A i \in 1..Len(ret.str) : ret.str[i] # NUL

\* what the finished operation of a thread's record r returned or threw
Result(r) == [threw |-> r.threw, self |-> r.self, list |-> r.list, val |-> r.val]

\* what the operation of r returns or throws when it runs alone, from
\* beginning to end, in this state
Sequential(r) ==
    CASE r.op = "chip_name" ->
           With(chip_find(G, r.path), LAMBDA x :
               [threw |-> x.threw, self |-> x.ent, list |-> <<>>, val |-> 0])
      [] r.op = "feature" ->
           With(feature_find(G, r.path), LAMBDA x :
               [threw |-> x.threw, self |-> x.ent, list |-> <<>>, val |-> 0])
      [] r.op = "subfeature" ->
           With(subfeature_find(G, r.path), LAMBDA x :
               [threw |-> x.threw, self |-> x.ent, list |-> <<>>, val |-> 0])
      [] r.op = "get_detected_chips" ->
           With(get_detected_chips(G), LAMBDA x :
               [threw |-> x.threw, self |-> NoEnt, list |-> x.list, val |-> 0])
      [] r.op = "read" ->
           With(subfeature_read(r.obj, r.io), LAMBDA x :
               [threw |-> x.threw, self |-> NoEnt, list |-> <<>>, val |-> x.val])
      [] r.op = "parent" ->
           [threw |-> "none",
            self |-> IF r.obj.kind = "subfeature" THEN feature_of(r.obj) ELSE chip_of(r.obj),
            list |-> <<>>, val |-> 0]

\* every operation a thread has finished returned what it returns when run
\* alone
ThreadsSequential ==
    \A t \in Threads : thr[t].pc = "done" => Result(thr[t]) = Sequential(thr[t])

\* C11: concurrent use without load_config is safe.  With several threads
\* constructing by path, enumerating, navigating and reading: libsensors is
\* initialised once (sensors_init is called only while the static is not
\* constructed, and once it is constructed the global state never changes);
\* every enumeration primitive is called with libsensors initialised; every
\* such call passes the cursor of the calling thread, which no other thread's
\* step changes; and every finished operation returned what the same
\* operation returns when run alone.
C11_ConcurrentUse ==
    [][ /\ \A t, u \in Threads : (thr'[t] # thr[t] /\ thr'[u] # thr[u]) => t = u
        /\ \A i \in 1..Len(calls') :
              /\ calls'[i].fn = "sensors_init"
                 => /\ ~static_init
                    /\ calls'[i].lib = {}
                    /\ calls'[i].arg = NULLFILE
                    /\ static_init' = (calls'[i].rc = 0)
              /\ calls'[i].fn \in EnumFns
                 => /\ static_init
                    /\ calls'[i].lib = {NULLFILE}
                    /\ \E t \in Threads : thr'[t] # thr[t] /\ calls'[i].nr = thr[t].nr
              /\ calls'[i].fn # "sensors_cleanup"
        /\ static_init => (static_init' /\ UNCHANGED <<handle, lib, files>>)
        /\ \A t \in Threads : thr'[t].nr \in {0, thr[t].nr, thr[t].nr + 1}
        /\ ThreadsSequential'
      ]_vars

\* C11 witness: two threads are inside enumeration loops at the same time,
\* each at its own cursor, after one of them initialised libsensors
C11_Witness ==
    /\ static_init
    /\ \E t, u \in Threads :
          /\ thr[t].pc = "subs" /\ thr[t].nr = 1
          /\ thr[u].pc = "chips" /\ thr[u].nr = 0
          /\ thr[u].op = "get_detected_chips"

\* what the accessors of an entity object report: the fields of the native
\* records it wraps, its parents, and for a chip its formatted name and for
\* a subfeature the value read
Accessors(e) ==
    CASE e.kind = "chip" ->
           [rec |-> [ChipRec(e) EXCEPT !.feats = <<>>], parent |-> NoEnt,
            name |-> chip_name_name(ChipRec(e)), features |-> features_loop(lib, e, 0).list]
      [] e.kind = "feature" ->
           [rec |-> [FeatRec(e) EXCEPT !.subs = <<>>], parent |-> chip_of(e),
            subfeatures |-> subfeatures_loop(lib, e, 0).list]
      [] e.kind = "subfeature" ->
           [rec |-> SubRec(e), parent |-> feature_of(e), chip |-> chip_of(e),
            value |-> subfeature_read(e, FALSE)]

\* the object the client holds reports what the object it was copied from
\* reports
CopyReportsSame == Accessors(ent) = Accessors(ret.self)

\* C12: copying is free of boundary calls.  Copying a chip_name, feature or
\* subfeature makes no boundary call and leaves the global state and the
\* hardware unchanged; the copy wraps the impl of the original (an element
\* of the vector copied from), so that the accessors of the copy report what
\* those of the original report, the parents included.
C12_Copy ==
    [][ ret'.op = "copy"
        => /\ calls' = <<>>
           /\ UNCHANGED <<static_init, handle, lib, files, hw>>
           /\ \E i \in 1..Len(ret.list) : ret'.self = ret.list[i]
           /\ ent' = ret'.self
           /\ CopyReportsSame'
      ]_vars

\* C12 witness: the client copied a subfeature out of the vector that
\* subfeatures() returned
C12_Witness ==
    /\ ret.op = "copy"
    /\ ret.self.kind = "subfeature"
    /\ ent = ret.self

\* C13: configuration file handles do not leak.  After any sequence of
\* load_config calls, successful or failing, the only configuration file
\* open is that of the active configuration, open once: a file opened by an
\* initialisation that failed or was torn down is closed.
C13_NoFileLeak ==
    /\ \A f \in DOMAIN files :
          files[f] = IF ~handle.null /\ handle.m_config = f THEN 1 ELSE 0
    /\ OpenCount(files) <= 1

\* the final segment of a path, said without the code's rfind: its longest
\* suffix that holds no separator
FinalSegment(p) ==
    CHOOSE f \in {SubSeq(p, n + 1, Len(p)) : n \in 0..Len(p)} :
        /\ \A i \in 1..Len(f) : f[i] # SLASH
        /\ Len(f) = Len(p) \/ p[Len(p) - Len(f)] = SLASH

\* the feature-name candidate of a filename, said without the code's rfind:
\* the filename itself when it holds no underscore, and otherwise the text c
\* with filename = c + "_" + a rest that holds no underscore
Candidate(fname) ==
    IF \A i \in 1..Len(fname) : fname[i] # USCORE THEN fname
    ELSE CHOOSE c \in {SubSeq(fname, 1, n) : n \in 0..(Len(fname) - 1)} :
             /\ fname[Len(c) + 1] = USCORE
             /\ \A j \in (Len(c) + 2)..Len(fname) : fname[j] # USCORE

\* C14: feature name split.  feature(full_path) takes the final segment of
\* the path, cuts it before its last underscore when it has one, takes the
\* parent directory as the chip path, and returns or throws exactly what
\* feature(parent directory, candidate) does; it succeeds only with an
\* enumerated feature whose name equals the candidate.
C14_FeatureNameSplit ==
    ret.op = "feature"
    => LET cand == Candidate(FinalSegment(ret.path))
           by2  == feature_find2(G, parent_path(ret.path), cand)
       IN  /\ ret.threw = by2.threw
           /\ ret.self = by2.ent
           /\ ret.threw = "none"
              => /\ ret.self.kind = "feature"
                 /\ ret.self.chip \in Detected
                 /\ ret.self.feat \in FeatIdx(ret.self.chip)
                 /\ FeatRec(ret.self).name = cand

\* C14 witness: feature(full_path) on a path that ends in a subfeature name
\* returned the feature named by the text before the underscore
C14_Witness ==
    /\ ret.op = "feature"
    /\ ret.threw = "none"
    /\ \E i \in 1..Len(FinalSegment(ret.path)) : FinalSegment(ret.path)[i] = USCORE
    /\ FeatRec(ret.self).name # FinalSegment(ret.path)
    /\ FeatRec(ret.self).name \o <<USCORE, "i">> = FinalSegment(ret.path)

\* C15: subfeature lookup by full path.  A path whose final segment is empty
\* throws parse_error before any lookup and any boundary call.  Any other
\* path resolves its feature as feature(full_path) does on the same path,
\* throws what that throws, and else enumerates the feature's subfeatures
\* from cursor 0 and returns the first one whose name equals the whole final
\* segment, with that feature and its chip as parents; parse_error when
\* there is none.
C15_SubfeatureLookup ==
    [][ ret'.op = "subfeature"
        => LET seg  == FinalSegment(ret'.path)
               feat == feature_find(G, ret'.path)
               subs == FeatRec(feat.ent).subs
               hits == {si \in 1..Len(subs) : subs[si].name = seg}
               first == CHOOSE si \in hits : \A sj \in hits : si <= sj
               E    == SelectSeq(calls', LAMBDA c : c.fn = "sensors_get_all_subfeatures")
           IN  IF seg = <<>>
               THEN /\ ret'.threw = "parse_error"
                    /\ ret'.self = NoEnt
                    /\ calls' = <<>>
                    /\ UNCHANGED <<static_init, handle, lib, files>>
               ELSE IF feat.threw # "none"
               THEN /\ ret'.threw = feat.threw
                    /\ ret'.self = NoEnt
                    /\ calls' = feat.calls
               ELSE /\ calls' = feat.calls \o E
                    /\ \A k \in 1..Len(E) : E[k].nr = k - 1
                    /\ IF hits = {}
                       THEN /\ ret'.threw = "parse_error"
                            /\ ret'.self = NoEnt
                            /\ Len(E) = Len(subs) + 1
                       ELSE /\ ret'.threw = "none"
                            /\ ret'.self = SubEnt(feat.ent, first)
                            /\ feature_of(ret'.self) = feat.ent
                            /\ chip_of(ret'.self) = chip_of(feat.ent)
                            /\ Len(E) = first
      ]_vars

\* C15 witness: subfeature(path) on a path that ends in a separator threw
\* parse_error with libsensors untouched and not even initialised
C15_Witness ==
    /\ ret.op = "subfeature"
    /\ FinalSegment(ret.path) = <<>>
    /\ ret.threw = "parse_error"
    /\ calls = <<>>
    /\ ~static_init
    /\ chips # <<>>

\* C16: global handle invariant.  After any sequence of load_config calls
\* and lookups, failing load_config calls included, the process-wide handle
\* once constructed holds an object and libsensors is initialised, so that a
\* later load_config has an active path to compare with (and the process
\* does not die on it); and no enumeration primitive is ever called on a
\* torn-down libsensors: the operation fails with init_error instead.
C16_HandleExists ==
    /\ static_init => (~handle.null /\ lib # {})
    /\ ~crashed
    /\ \A i \in 1..Len(calls) : calls[i].fn \in EnumFns => calls[i].lib # {}

\* C17: load_config(path) with a non-empty path as the first operation of
\* the process succeeds whenever the file opens and sensors_init accepts it,
\* whether or not the default configuration would load.
C17_FirstLoadConfig ==
    [][ (/\ ret.op = "none"
         /\ ret'.op = "load_config"
         /\ ret'.cfg # ""
         /\ fopen(ret'.cfg) # NULLFILE
         /\ sensors_init(fopen(ret'.cfg)) = 0)
        => /\ ret'.threw = "none"
           /\ lib' = {fopen(ret'.cfg)}
           /\ ~handle'.null
           /\ handle'.m_path = ret'.cfg
      ]_vars

====
